---- MODULE Spec2Model ----
(***************************************************************************)
(* CyberGuard: keyword intent classifier, FAQ similarity retriever and the *)
(* two-turn phishing conversation state machine of CyberOrchestrator.      *)
(*                                                                         *)
(* Texts are TLA+ strings handled character by character.  Similarity      *)
(* scores are integers in hundredths (0.10 is 10, 0.15 is 15, 0.3 is 30).  *)
(***************************************************************************)
EXTENDS Integers, Sequences, FiniteSets, TLC

VARIABLES
    session,        \* the caller-owned session dict: a function from its keys
    conversations,  \* rows of the conversations table, in insertion order
    metrics,        \* rows of the metrics table, in insertion order
    last,           \* the last operation: its inputs, its trace and what it returned
    input,          \* the arguments drawn for a pure function under check
    calls           \* number of respond calls made so far

vars == <<session, conversations, metrics, last, input, calls>>

----------------------------------------------------------------------------
(* Bounds of the model *)

MaxCalls == 2
MaxWords == 2
NumFAQ == 2
MaxTopK == 3

----------------------------------------------------------------------------
(* Strings *)

Min(a, b) == IF a < b THEN a ELSE b
Max(a, b) == IF a > b THEN a ELSE b

CharAt(s, i) == SubSeq(s, i, i)

UpperChars == "ABCDEFGHIJKLMNOPQRSTUVWXYZÉÈÊÇ"
LowerChars == "abcdefghijklmnopqrstuvwxyzéèêç"

\* str.lower() on one character
LowerChar(c) ==
    IF \E i \in 1..Len(UpperChars) : CharAt(UpperChars, i) = c
    THEN CharAt(LowerChars, CHOOSE i \in 1..Len(UpperChars) : CharAt(UpperChars, i) = c)
    ELSE c

RECURSIVE MapChars(_, _, _)
\* the string s with every character c at a position >= i replaced by f[c]
\* when c is in the domain of f
MapChars(s, f, i) ==
    IF i > Len(s) THEN ""
    ELSE LET c == CharAt(s, i)
         IN  (IF c \in DOMAIN f THEN f[c] ELSE c) \o MapChars(s, f, i + 1)

RECURSIVE lower(_)
lower(s) == IF s = "" THEN "" ELSE LowerChar(CharAt(s, 1)) \o lower(SubSeq(s, 2, Len(s)))

\* Python's `k in t` on strings
Contains(k, t) ==
    \E i \in 1..(Len(t) - Len(k) + 1) : SubSeq(t, i, i + Len(k) - 1) = k

\* any(k in t for k in keywords)
AnyIn(keywords, t) == \E j \in 1..Len(keywords) : Contains(keywords[j], t)

Range(f) == { f[i] : i \in DOMAIN f }

Whitespace == {" ", "\t", "\n", "\r"}

\* `not query or not query.strip()`
IsBlank(s) == \A i \in 1..Len(s) : CharAt(s, i) \in Whitespace

----------------------------------------------------------------------------
(* Intent classifier: CyberOrchestrator.detect_intent *)

greeting_keywords == <<"bonjour", "salut", "bonsoir", "hello", "hi", "hey", "coucou">>

intent_keywords == <<
    [intent |-> "phishing_incident", keywords |-> <<
        "phishing", "hameçonnage", "hameconnage", "email suspect",
        "mail suspect", "lien suspect", "lien douteux", "ai clique",
        "j ai clique", "clique sur", "piege", "arnaque", "scam",
        "frauduleux", "usurpation", "recu un mail", "email bizarre",
        "suspect", "douteux", "etrange" >>],
    [intent |-> "password_security", keywords |-> <<
        "mot de passe", "password", "mdp", "gestionnaire", "complexe",
        "securise", "robuste", "fort", "faible", "creer un mot",
        "changer mot", "oublie mot", "reset password", "perdu mot",
        "bloque", "verrouille", "probleme mot", "compte bloque" >>],
    [intent |-> "mfa", keywords |-> <<
        "mfa", "2fa", "authentification", "double authentification",
        "multifacteur", "code", "verification", "token", "otp",
        "deux facteurs", "validation" >>],
    [intent |-> "vpn", keywords |-> <<
        "vpn", "reseau", "a distance", "remote", "connexion",
        "distant", "tunnel", "wifi public", "reseau public",
        "travail distance", "teletravail" >>],
    [intent |-> "updates", keywords |-> <<
        "mise a jour", "maj", "patch", "correctif", "update",
        "installer", "mettre a jour", "version", "upgrade" >>],
    [intent |-> "data_sensitivity", keywords |-> <<
        "donnees sensibles", "donnees", "rgpd", "confidentiel",
        "partage", "fichier", "document", "transfert", "sensitive",
        "partager fichier", "envoyer fichier", "donnee" >>],
    [intent |-> "incident_reporting", keywords |-> <<
        "incident", "signaler", "securite", "compromis", "support",
        "alerte", "probleme", "attaque", "breach", "violation",
        "contacter", "aide", "urgence" >>]
>>

\* text.lower() followed by the five replace calls
normalize(text) ==
    MapChars(lower(text),
             ("'" :> " ") @@ ("-" :> " ") @@ ("é" :> "e") @@ ("è" :> "e") @@ ("ê" :> "e"),
             1)

RECURSIVE FirstMatch(_, _)
\* the loop over intent_keywords.items() from entry i on
FirstMatch(t, i) ==
    IF i > Len(intent_keywords) THEN "general"
    ELSE IF AnyIn(intent_keywords[i].keywords, t) THEN intent_keywords[i].intent
    ELSE FirstMatch(t, i + 1)

\* the greeting keywords looked for after the other lists, not before
detect_intent_greeting_last(text) ==
    LET t == normalize(text)
        intent == FirstMatch(t, 1)
    IN  IF intent = "general" /\ AnyIn(greeting_keywords, t) THEN "greeting" ELSE intent

detect_intent(text) ==
    LET t == normalize(text)
    IN  IF AnyIn(greeting_keywords, t) THEN "greeting" ELSE FirstMatch(t, 1)

----------------------------------------------------------------------------
(* The texts of the model.  The functions of a text alone are applied once *)
(* to each of them, and the operations below look the results up.          *)

\* the texts the caller sends in the conversations checked
Texts == {
    "bonjour",
    "J'ai cliqué sur un lien suspect",
    "oui",
    "OUI",
    "non",
    "",
    "  ",
    "mot de passe oublié",
    "vpn",
    "signaler un incident" }

\* the queries search is checked on
SearchQueries == { "", " ", "vpn", "mot de passe" }

\* the condition without its last keyword
admits_credentials_short(t) ==
    Contains("oui", t) \/ Contains("identifiant", t)

\* the condition of the follow-up handler on the lower-cased text
admits_credentials(t) ==
    Contains("oui", t) \/ Contains("identifiant", t) \/ Contains("mot de passe", t)

Classified == [ t \in Texts |-> detect_intent(t) ]
Lowered == [ t \in Texts |-> lower(t) ]
Admitted == [ t \in Texts |-> admits_credentials(Lowered[t]) ]
Blank == [ t \in Texts \cup SearchQueries |-> IsBlank(t) ]

----------------------------------------------------------------------------
(* Knowledge base: the document loaded once at construction.  Its content  *)
(* is data outside the program; a small one with NumFAQ entries, two tips  *)
(* and guidance for some intents stands for it.                            *)

faq == [ i \in 1..NumFAQ |->
            [ question |-> "Q" \o ToString(i),
              answer   |-> "A" \o ToString(i),
              category |-> "cat" \o ToString(i) ] ]

tips == << "Verrouillez votre session.", "Ne partagez jamais vos codes." >>

guidance ==
    [ phishing_incident |->
        [ why |-> "Le phishing vise vos identifiants.",
          best_practices |-> << "Vérifier l'expéditeur" >>,
          common_mistakes |-> << "Cliquer trop vite" >> ],
      password_security |->
        [ why |-> "Un mot de passe faible se devine.",
          best_practices |-> << >>,
          common_mistakes |-> << "Réutiliser un mot de passe" >> ],
      incident_reporting |->
        [ why |-> "Signaler tôt limite l'impact.",
          best_practices |-> << "Prévenir la sécurité" >>,
          common_mistakes |-> << >> ],
      general |->
        [ why |-> "La vigilance protège tout le monde.",
          best_practices |-> << "Rester prudent" >>,
          common_mistakes |-> << >> ] ]

----------------------------------------------------------------------------
(* Similarity retriever: CyberFAQAgent *)

min_similarity == 15
RelevanceFloor == 10

\* the cosine similarities a query can get against the corpus: one score per
\* FAQ entry.  The vectorizer is not modelled; any row of scores may come out.
Scores == {0, 10, 15, 30}
Sims == [1..NumFAQ -> Scores]

\* sims.argmax(): the first index holding the maximum
argmax(sims) ==
    CHOOSE i \in DOMAIN sims :
        /\ \A j \in DOMAIN sims : sims[j] <= sims[i]
        /\ \A j \in DOMAIN sims : j < i => sims[j] < sims[i]

\* sims.argsort(): the permutations of the indices that put the scores in
\* ascending order (the order among equal scores is not specified)
argsort(sims) ==
    { p \in [DOMAIN sims -> DOMAIN sims] :
        /\ \A i, j \in DOMAIN sims : i # j => p[i] # p[j]
        /\ \A i, j \in DOMAIN sims : i < j => sims[p[i]] <= sims[p[j]] }

\* the reversal left out: the ascending order is sliced as it is
Reversed_left_out(seq) == seq

\* seq[::-1]
Reversed(seq) == [ i \in 1..Len(seq) |-> seq[Len(seq) + 1 - i] ]

\* seq[:k], with Python's meaning of a negative k
SliceTo(seq, k) ==
    IF k >= 0 THEN SubSeq(seq, 1, Min(k, Len(seq)))
    ELSE SubSeq(seq, 1, Max(0, Len(seq) + k))

fallback_answer ==
    "Je n'ai pas une réponse précise pour cette question. "
    \o "Voici quelques conseils généraux : évitez de cliquer sur des liens "
    \o "suspects, utilisez des mots de passe robustes (12+ caractères), "
    \o "activez la MFA partout où c'est possible. "
    \o "Pour les incidents ou questions spécifiques, contactez l'équipe cybersécurité."

empty_answer == "Veuillez poser une question liée à la cybersécurité."

NoRow == [question |-> "", answer |-> "", category |-> ""]

\* answer without its guard on a blank query: the query is vectorized
answer_unguarded(query, sims) ==
    LET best_idx == argmax(sims)
        best_score == sims[best_idx]
    IN  IF best_score >= min_similarity
        THEN [answer |-> faq[best_idx].answer, score |-> best_score,
              meta |-> faq[best_idx], transforms |-> 1]
        ELSE [answer |-> fallback_answer, score |-> best_score,
              meta |-> NoRow, transforms |-> 1]

\* CyberFAQAgent.answer: (answer, score, meta) and the number of
\* vectorizer.transform calls made
answer(query, sims) ==
    IF Blank[query]
    THEN [answer |-> empty_answer, score |-> 0, meta |-> NoRow, transforms |-> 0]
    ELSE LET best_idx == argmax(sims)
             best_score == sims[best_idx]
         IN  IF best_score >= min_similarity
             THEN [answer |-> faq[best_idx].answer, score |-> best_score,
                   meta |-> faq[best_idx], transforms |-> 1]
             ELSE [answer |-> fallback_answer, score |-> best_score,
                   meta |-> NoRow, transforms |-> 1]

RECURSIVE Relevant(_, _, _)
\* the loop over idxs: the (row, score) pairs of the indices from position n
\* on whose score reaches the floor
Relevant(idxs, sims, n) ==
    IF n > Len(idxs) THEN << >>
    ELSE (IF sims[idxs[n]] >= RelevanceFloor
          THEN << <<faq[idxs[n]], sims[idxs[n]]>> >>
          ELSE << >>) \o Relevant(idxs, sims, n + 1)

\* CyberFAQAgent.search, given the order argsort produced
search(query, top_k, sims, order) ==
    IF Blank[query]
    THEN [results |-> << >>, transforms |-> 0]
    ELSE LET idxs == SliceTo(Reversed(order), top_k)
         IN  [results |-> Relevant(idxs, sims, 1), transforms |-> 1]

default_tip ==
    "Astuce: Activez l'authentification multifacteur et ne réutilisez pas vos mots de passe."

\* CyberFAQAgent.tip: the tips random.choice may return
tip == IF Len(tips) = 0 THEN {default_tip} ELSE Range(tips)

----------------------------------------------------------------------------
(* Persistence sink: ConversationDB.  A write that fails raises before its *)
(* commit and leaves the table as it was.                                  *)

\* the two message columns filled the wrong way round
save_conversation_swapped(db, user_id, user_msg, agent_response, intent, fails) ==
    IF fails
    THEN [db |-> db, raised |-> TRUE]
    ELSE [db |-> [db EXCEPT !.conversations = Append(@,
                    [user_id |-> user_id, user_message |-> agent_response,
                     agent_response |-> user_msg, intent |-> intent])],
          raised |-> FALSE]

\* the failure of the write caught and dropped inside the sink
save_conversation_swallows(db, user_id, user_msg, agent_response, intent, fails) ==
    IF fails
    THEN [db |-> db, raised |-> FALSE]
    ELSE [db |-> [db EXCEPT !.conversations = Append(@,
                    [user_id |-> user_id, user_message |-> user_msg,
                     agent_response |-> agent_response, intent |-> intent])],
          raised |-> FALSE]

save_conversation(db, user_id, user_msg, agent_response, intent, fails) ==
    IF fails
    THEN [db |-> db, raised |-> TRUE]
    ELSE [db |-> [db EXCEPT !.conversations = Append(@,
                    [user_id |-> user_id, user_message |-> user_msg,
                     agent_response |-> agent_response, intent |-> intent])],
          raised |-> FALSE]

increment_metric(db, metric_name, intent, fails) ==
    IF fails
    THEN [db |-> db, raised |-> TRUE]
    ELSE [db |-> [db EXCEPT !.metrics = Append(@,
                    [metric_name |-> metric_name, value |-> 1, intent |-> intent])],
          raised |-> FALSE]

----------------------------------------------------------------------------
(* Python values the orchestrator handles *)

None == "<None>"

\* dict.get(k), d[k] = v and dict.pop(k, None) on a dict held as a function
DictGet(d, k) == IF k \in DOMAIN d THEN d[k] ELSE None
DictSet(d, k, v) == [ x \in DOMAIN d \cup {k} |-> IF x = k THEN v ELSE d[x] ]
DictPop(d, k) == [ x \in DOMAIN d \ {k} |-> d[x] ]

\* a suggestion label is a str or a dict: the value with its Python type
PyStr(v) == [type |-> "str", value |-> v]
PyDict(v) == [type |-> "dict", value |-> v]

AgentResponse(message, steps, suggestions, a_tip, follow_up, intent) ==
    [ message |-> message, steps |-> steps, suggestions |-> suggestions,
      tip |-> a_tip, follow_up |-> follow_up, intent |-> intent ]

\* what the caller gets when respond raises instead of returning
NoResponse == [raised |-> TRUE]

----------------------------------------------------------------------------
(* Conversation orchestrator: CyberOrchestrator *)

ClarifyBelow == 15
ConfidentFrom == 30

_generic_steps(intent) ==
    LET mapping ==
          [ password_security |-> <<
                "Utilisez un gestionnaire de mots de passe fourni par l'organisation.",
                "Créez un mot de passe d'au moins 12 caractères mélangeant majuscules, minuscules, chiffres et symboles.",
                "Activez la MFA sur tous vos comptes critiques.",
                "Ne réutilisez jamais le même mot de passe." >>,
            mfa |-> <<
                "Préférez les applications d'authentification (Google Authenticator, Microsoft Authenticator) aux SMS.",
                "Gardez des codes de secours dans un coffre sécurisé.",
                "Activez la MFA sur tous les comptes qui le permettent." >>,
            vpn |-> <<
                "Téléchargez le client VPN depuis le portail IT de votre organisation.",
                "Activez le VPN avant d'accéder à toute ressource interne.",
                "Utilisez toujours le VPN sur les réseaux publics ou non fiables.",
                "Fermez la session VPN après usage." >>,
            updates |-> <<
                "Appliquez les patchs critiques dans les 48 heures.",
                "Installez les patchs normaux dans les 2 semaines.",
                "Redémarrez l'appareil après un patch critique.",
                "Vérifiez que la mise à jour s'est bien appliquée." >>,
            data_sensitivity |-> <<
                "Utilisez uniquement les outils homologués pour partager des fichiers sensibles.",
                "Chiffrez les données en transit (HTTPS/TLS) et au repos.",
                "Limitez l'accès aux personnes vraiment autorisées.",
                "Appliquez le principe du moindre privilège." >>,
            incident_reporting |-> <<
                "Collectez les éléments (logs, captures, emails) sans les altérer.",
                "Contactez immédiatement l'équipe sécurité (ne pas attendre).",
                "Créez un ticket dans le système GRC si disponible.",
                "Notifiez votre manager de la situation." >>,
            general |-> <<
                "Vérifiez toujours l'expéditeur des emails.",
                "Utilisez des mots de passe robustes et uniques.",
                "Activez la MFA partout où c'est possible.",
                "En cas de doute, contactez l'équipe sécurité." >> ]
    IN  IF intent \in DOMAIN mapping THEN mapping[intent] ELSE mapping["general"]

RECURSIVE Bullets(_, _, _)
\* the lines f"{mark} {item}\n" of the items from position n on.  The marks
\* are a bullet and a warning sign in the source; "-" and "!" stand for
\* them here, as string literals hold Latin-1 characters only.
Bullets(mark, items, n) ==
    IF n > Len(items) THEN ""
    ELSE mark \o " " \o items[n] \o "\n" \o Bullets(mark, items, n + 1)

_enrich_md(intent) ==
    IF intent \notin DOMAIN guidance THEN ""
    ELSE LET g == guidance[intent]
             context == "\n\n**Contexte :** " \o g.why
             best == IF Len(g.best_practices) > 0
                     THEN "\n\n**Bonnes pratiques :**\n" \o Bullets("-", g.best_practices, 1)
                     ELSE ""
             mistakes == IF Len(g.common_mistakes) > 0
                         THEN "\n**Erreurs courantes :**\n" \o Bullets("!", g.common_mistakes, 1)
                         ELSE ""
         IN  context \o best \o mistakes

\* the two writes that end a turn: save_conversation, then increment_metric
\* unless the first raised.  env.fail names the write the sink fails, if any;
\* writes lists the writes attempted and whether each went through.
LogTurn(db, user_id, user_text, msg, intent, env) ==
    LET s == save_conversation(db, user_id, user_text, msg, intent, env.fail = "save")
    IN  IF s.raised
        THEN [db |-> s.db, raised |-> TRUE,
              writes |-> << [op |-> "save_conversation", ok |-> FALSE] >>]
        ELSE LET m == increment_metric(s.db, "question_asked", intent, env.fail = "incr")
             IN  [db |-> m.db, raised |-> m.raised,
                  writes |-> << [op |-> "save_conversation", ok |-> env.fail # "save"],
                                [op |-> "increment_metric", ok |-> env.fail # "incr"] >>]

\* what a respond call leaves behind: the session and the tables as they
\* are when it ends, whether it raised, what it returned, and the trace of
\* the call (the handler that ran, whether detect_intent was called, the
\* number of vectorizer.transform calls, the score faq.answer returned)
Outcome(sess, log, response, handler, classified, transforms, score) ==
    [ session |-> sess, db |-> log.db, raised |-> log.raised, writes |-> log.writes,
      response |-> IF log.raised THEN NoResponse ELSE response,
      handler |-> handler, classified |-> classified,
      transforms |-> transforms, score |-> score ]

urgent_msg ==
    "Action immédiate requise :\n"
    \o "1. Changez tous vos mots de passe immédiatement\n"
    \o "2. Activez la MFA sur tous vos comptes\n"
    \o "3. Contactez l'équipe sécurité : security@company.com\n"
    \o "4. Surveillez vos comptes pour toute activité suspecte"

urgent_steps == <<
    "Changez vos mots de passe maintenant",
    "Activez la MFA partout",
    "Contactez security@company.com",
    "Surveillez vos comptes" >>

calm_msg ==
    "Bien. Voici ce qu'il faut faire :\n"
    \o "1. Ne réutilisez plus cet email\n"
    \o "2. Signalez-le à votre équipe IT\n"
    \o "3. Supprimez l'email\n"
    \o "4. Restez vigilant pour les prochains emails"

calm_steps == <<
    "Signalez l'email à l'équipe IT",
    "Supprimez l'email sans y répondre",
    "Restez vigilant" >>

\* the handler without its session.pop: the flow stays pending
_handle_phishing_followup_keeps(user_text, session0, user_id, db, env) ==
    LET admits == Admitted[user_text]
        msg == IF admits THEN urgent_msg ELSE calm_msg
        steps == IF admits THEN urgent_steps ELSE calm_steps
        s == save_conversation(db, user_id, user_text, msg, "phishing_followup",
                               env.fail = "save")
        log == [db |-> s.db, raised |-> s.raised,
                writes |-> << [op |-> "save_conversation", ok |-> env.fail # "save"] >>]
    IN  Outcome(session0, log,
                AgentResponse(msg, steps, << >>, env.tip, "", "phishing_followup"),
                "followup", FALSE, 0, -1)

_handle_phishing_followup(user_text, session0, user_id, db, env) ==
    LET sess == DictPop(session0, "pending_flow")
        admits == Admitted[user_text]
        msg == IF admits THEN urgent_msg ELSE calm_msg
        steps == IF admits THEN urgent_steps ELSE calm_steps
        s == save_conversation(db, user_id, user_text, msg, "phishing_followup",
                               env.fail = "save")
        log == [db |-> s.db, raised |-> s.raised,
                writes |-> << [op |-> "save_conversation", ok |-> env.fail # "save"] >>]
    IN  Outcome(sess, log,
                AgentResponse(msg, steps, << >>, env.tip, "", "phishing_followup"),
                "followup", FALSE, 0, -1)

greeting_msg ==
    "Bonjour ! Je suis CyberGuard, votre assistant en cybersécurité. "
    \o "Je peux vous aider avec : le phishing, les mots de passe, la MFA, "
    \o "le VPN, les mises à jour, la gestion des données sensibles, et le signalement d'incidents. "
    \o "Comment puis-je vous aider ?"

\* The labels open with an emoji in the source; string literals hold Latin-1
\* characters only, so the emoji and the space after it are left out.
greeting_suggestions == <<
    << PyDict([question |-> "Comment créer un mot de passe solide ?"]), 100 >>,
    << PyDict([question |-> "Comment détecter un email suspect ?"]), 100 >>,
    << PyDict([question |-> "Qu'est-ce que la MFA ?"]), 100 >> >>

phishing_msg ==
    "Compris. Pour un potentiel hameçonnage, restons méthodiques. "
    \o "Je vais vous guider étape par étape."

phishing_steps == <<
    "Ne cliquez plus dans l'email et n'ouvrez pas les pièces jointes.",
    "Si vous avez entré des identifiants, changez-les immédiatement et activez la MFA.",
    "Capturez les éléments (expéditeur, sujet, lien) et signalez l'email à la sécurité." >>

phishing_follow_up ==
    "Avez-vous entré des identifiants ou téléchargé une pièce jointe après avoir cliqué ?"

clarification_msg ==
    "Je peux vous aider sur : phishing, mots de passe, MFA, VPN, mises à jour, données sensibles, "
    \o "signalement d'incident. Pouvez-vous préciser votre problème ?"

clarification_suggestions == <<
    << PyDict([question |-> "J'ai reçu un mail suspect"]), 100 >>,
    << PyDict([question |-> "Mon mot de passe est bloqué"]), 100 >>,
    << PyDict([question |-> "Activer la MFA"]), 100 >>,
    << PyDict([question |-> "Signaler un incident"]), 100 >> >>

password_script ==
    "Voyons ensemble pour votre mot de passe :\n"
    \o "1) Essayez la fonction « Mot de passe oublié » du portail.\n"
    \o "2) Si votre compte est bloqué, attendez 15 minutes puis réessayez.\n"
    \o "3) Si ça ne marche pas, contactez le support IT pour un reset sécurisé.\n"
    \o "4) Une fois réinitialisé, définissez un mot de passe unique et activez la MFA."

\* [(q.get("question", ""), s) for (q, s) in results]
Suggest(results) ==
    [ i \in 1..Len(results) |-> << PyStr(results[i][1].question), results[i][2] >> ]

\* respond, the greeting branch
respond_greeting(user_text, sess, user_id, db, env, intent) ==
    LET log == LogTurn(db, user_id, user_text, greeting_msg, intent, env)
    IN  Outcome(sess, log,
                AgentResponse(greeting_msg, << >>, greeting_suggestions, env.tip, "", intent),
                "greeting", TRUE, 0, -1)

\* respond, the phishing incident branch
respond_phishing(user_text, session0, user_id, db, env, intent) ==
    LET found == search(user_text, 3, env.sims, env.order)
        suggestions == Suggest(found.results)
        sess == DictSet(session0, "pending_flow", "phishing_followup")
        msg == phishing_msg \o _enrich_md(intent)
        log == LogTurn(db, user_id, user_text, msg, intent, env)
    IN  Outcome(sess, log,
                AgentResponse(msg, phishing_steps, suggestions, env.tip,
                              phishing_follow_up, intent),
                "phishing", TRUE, found.transforms, -1)

\* the default branch without the password script and without the confidence
\* gate on the guidance block
respond_default_ungated(user_text, sess, user_id, db, env, intent) ==
    LET a == answer(user_text, env.sims)
        score == a.score
        found == search(user_text, 3, env.sims, env.order)
        suggestions == Suggest(found.results)
        steps == _generic_steps(intent)
        transforms == a.transforms + found.transforms
    IN  IF score < ClarifyBelow /\ intent \in {"general", "incident_reporting"}
        THEN Outcome(sess,
                     LogTurn(db, user_id, user_text, clarification_msg, intent, env),
                     AgentResponse(clarification_msg, << >>, clarification_suggestions,
                                   env.tip, "", intent),
                     "clarification", TRUE, transforms, score)
        ELSE LET msg == a.answer \o _enrich_md(intent)
             IN  Outcome(sess,
                         LogTurn(db, user_id, user_text, msg, intent, env),
                         AgentResponse(msg, steps, suggestions, env.tip, "", intent),
                         "default", TRUE, transforms, score)

\* the clarification asked for on a low score whatever the intent
respond_default_any_intent(user_text, sess, user_id, db, env, intent) ==
    LET a == answer(user_text, env.sims)
        score == a.score
        found == search(user_text, 3, env.sims, env.order)
        suggestions == Suggest(found.results)
        steps == _generic_steps(intent)
        transforms == a.transforms + found.transforms
    IN  IF score < ClarifyBelow
        THEN Outcome(sess,
                     LogTurn(db, user_id, user_text, clarification_msg, intent, env),
                     AgentResponse(clarification_msg, << >>, clarification_suggestions,
                                   env.tip, "", intent),
                     "clarification", TRUE, transforms, score)
        ELSE LET msg == IF intent = "password_security" /\ score < ConfidentFrom
                        THEN password_script \o _enrich_md("password_security")
                        ELSE IF score >= ConfidentFrom
                             THEN a.answer \o _enrich_md(intent)
                             ELSE a.answer \o _enrich_md("general")
             IN  Outcome(sess,
                         LogTurn(db, user_id, user_text, msg, intent, env),
                         AgentResponse(msg, steps, suggestions, env.tip, "", intent),
                         "default", TRUE, transforms, score)

\* respond, from the FAQ lookup to the end
respond_default(user_text, sess, user_id, db, env, intent) ==
    LET a == answer(user_text, env.sims)
        score == a.score
        found == search(user_text, 3, env.sims, env.order)
        suggestions == Suggest(found.results)
        steps == _generic_steps(intent)
        transforms == a.transforms + found.transforms
    IN  IF score < ClarifyBelow /\ intent \in {"general", "incident_reporting"}
        THEN Outcome(sess,
                     LogTurn(db, user_id, user_text, clarification_msg, intent, env),
                     AgentResponse(clarification_msg, << >>, clarification_suggestions,
                                   env.tip, "", intent),
                     "clarification", TRUE, transforms, score)
        ELSE LET msg == IF intent = "password_security" /\ score < ConfidentFrom
                        THEN password_script \o _enrich_md("password_security")
                        ELSE IF score >= ConfidentFrom
                             THEN a.answer \o _enrich_md(intent)
                             ELSE a.answer \o _enrich_md("general")
             IN  Outcome(sess,
                         LogTurn(db, user_id, user_text, msg, intent, env),
                         AgentResponse(msg, steps, suggestions, env.tip, "", intent),
                         "default", TRUE, transforms, score)

\* CyberOrchestrator.respond.  env holds what the call draws from outside:
\* the similarities of the text (sims), the order argsort gives them
\* (order), the tip random.choice picks (tip) and the write that fails (fail).
respond(user_text, sess, user_id, db, env) ==
    LET pending == DictGet(sess, "pending_flow")
    IN  IF pending = "phishing_followup"
        THEN _handle_phishing_followup(user_text, sess, user_id, db, env)
        ELSE LET intent == Classified[user_text]
             IN  IF intent = "greeting"
                 THEN respond_greeting(user_text, sess, user_id, db, env, intent)
                 ELSE IF intent = "phishing_incident"
                 THEN respond_phishing(user_text, sess, user_id, db, env, intent)
                 ELSE respond_default(user_text, sess, user_id, db, env, intent)

----------------------------------------------------------------------------
(* The conversation: one caller, its session dict and its respond calls *)

UserIds == {"anonymous", "alice"}

\* the session dicts a caller starts a conversation with
InitialSessions == { << >>, ("pending_flow" :> "quiz") @@ ("lang" :> "fr") }

Failures == {"none", "save", "incr"}

NoOp == [op |-> "none"]

Init ==
    /\ session \in InitialSessions
    /\ conversations = << >>
    /\ metrics = << >>
    /\ last = NoOp
    /\ input \in { [op |-> "respond", user_id |-> u] : u \in UserIds }
    /\ calls = 0

Respond ==
    /\ input.op = "respond"
    /\ calls < MaxCalls
    /\ \E user_text \in Texts, fail \in Failures, a_tip \in tip, sims \in Sims :
           \E order \in argsort(sims) :
             \E r \in { respond(user_text, session, input.user_id,
                                [conversations |-> conversations, metrics |-> metrics],
                                [sims |-> sims, order |-> order,
                                 tip |-> a_tip, fail |-> fail]) } :
                /\ session' = r.session
                /\ conversations' = r.db.conversations
                /\ metrics' = r.db.metrics
                /\ last' = [ op |-> "respond", text |-> user_text,
                             user_id |-> input.user_id, fail |-> fail,
                             raised |-> r.raised, response |-> r.response,
                             writes |-> r.writes, handler |-> r.handler,
                             classified |-> r.classified,
                             transforms |-> r.transforms, score |-> r.score ]
                /\ calls' = calls + 1
                /\ UNCHANGED input

Next == Respond

Spec == Init /\ [][Next]_vars

----------------------------------------------------------------------------
(* Checking one respond call: the text and its similarities to the FAQ
   entries are drawn in the initial state, so that the response can be
   compared with the entry the retriever ranks best *)

InitTurn ==
    /\ session \in InitialSessions
    /\ conversations = << >>
    /\ metrics = << >>
    /\ last = NoOp
    /\ input \in { [op |-> "turn", user_id |-> "anonymous", text |-> t, sims |-> s] :
                     t \in Texts, s \in Sims }
    /\ calls = 0

RespondOnce ==
    /\ input.op = "turn"
    /\ calls = 0
    /\ \E fail \in Failures, a_tip \in tip, order \in argsort(input.sims) :
         \E r \in { respond(input.text, session, input.user_id,
                            [conversations |-> conversations, metrics |-> metrics],
                            [sims |-> input.sims, order |-> order,
                             tip |-> a_tip, fail |-> fail]) } :
            /\ session' = r.session
            /\ conversations' = r.db.conversations
            /\ metrics' = r.db.metrics
            /\ last' = [ op |-> "respond", text |-> input.text,
                         user_id |-> input.user_id, fail |-> fail,
                         raised |-> r.raised, response |-> r.response,
                         writes |-> r.writes, handler |-> r.handler,
                         classified |-> r.classified,
                         transforms |-> r.transforms, score |-> r.score ]
            /\ calls' = calls + 1
            /\ UNCHANGED input

SpecTurn == InitTurn /\ [][RespondOnce]_vars

----------------------------------------------------------------------------
(* The HTTP boundary: POST /chat.  Here session is the session object the
   client holds, conversations and metrics are the tables of the one agent
   get_agent() builds on the first request and keeps, and last is the
   request with the reply the client gets.  main.py imports the agent class
   under the name CyberAwarenessAgent; the class orchestrator.py defines,
   CyberOrchestrator, is the one modelled behind it. *)

\* an optional field of a request body: absent, or present with a value
Nothing == [some |-> FALSE]
Some(v) == [some |-> TRUE, value |-> v]

MessageRequest(message, user_id, sess) ==
    [ message |-> message, user_id |-> user_id, session |-> sess ]

\* the reply body: no field carries the session or the intent
MessageResponse(id, response, steps, suggestions, a_tip, follow_up) ==
    [ id |-> id, response |-> response, steps |-> steps,
      suggestions |-> suggestions, tip |-> a_tip, follow_up |-> follow_up ]

HTTPException == [status_code |-> 500]

\* request.user_id or "anonymous"
chat_user_id(request) ==
    IF request.user_id \in {None, ""} THEN "anonymous" ELSE request.user_id

\* request.session or {}: the dict parsed from this request's body, or a new
\* empty one; in both cases an object of this request alone
chat_session(request) ==
    IF request.session.some /\ request.session.value # << >>
    THEN request.session.value
    ELSE << >>

\* the reply of chat to a request on which respond gave r
chat_reply(request, r) ==
    IF r.raised
    THEN [status_code |-> HTTPException.status_code, body |-> HTTPException]
    ELSE [status_code |-> 200,
          body |-> MessageResponse(chat_user_id(request), r.response.message,
                                   r.response.steps, r.response.suggestions,
                                   r.response.tip, r.response.follow_up)]

\* what a client sends as session: the object it holds, or nothing
Sendable(held) == { Nothing, Some(held) }

InitChat ==
    /\ session \in InitialSessions
    /\ conversations = << >>
    /\ metrics = << >>
    /\ last = NoOp
    /\ input \in { [op |-> "chat", user_id |-> u] : u \in {None, "alice"} }
    /\ calls = 0

Chat ==
    /\ input.op = "chat"
    /\ calls < MaxCalls
    /\ \E message \in Texts, sent \in Sendable(session), fail \in Failures,
          a_tip \in tip, sims \in Sims :
         \E order \in argsort(sims), request \in { MessageRequest(message, input.user_id, sent) } :
           \E r \in { respond(request.message, chat_session(request), chat_user_id(request),
                              [conversations |-> conversations, metrics |-> metrics],
                              [sims |-> sims, order |-> order,
                               tip |-> a_tip, fail |-> fail]) } :
             \E reply \in { chat_reply(request, r) } :
                /\ conversations' = r.db.conversations
                /\ metrics' = r.db.metrics
                /\ last' = [ op |-> "chat", request |-> request,
                             status_code |-> reply.status_code, body |-> reply.body,
                             handler |-> r.handler, server_session |-> r.session ]
                /\ calls' = calls + 1
                /\ UNCHANGED <<session, input>>

SpecChat == InitChat /\ [][Chat]_vars

----------------------------------------------------------------------------
(* Checking detect_intent alone: the text is drawn in the initial state *)

IntentWords == {
    "Bonjour", "HELLO", "hi", "J'ai cliqué", "lien suspect", "hameçonnage",
    "phishing", "mot de passe", "problème mot", "MFA", "code", "vpn",
    "télé-travail", "mise à jour", "update", "données", "incident",
    "sécurité", "merci" }

RECURSIVE Join(_)
\* the words of a sequence separated by single spaces
Join(ws) ==
    IF Len(ws) = 0 THEN ""
    ELSE IF Len(ws) = 1 THEN ws[1]
    ELSE ws[1] \o " " \o Join(Tail(ws))

IntentTexts == { Join(ws) : ws \in UNION { [1..n -> IntentWords] : n \in 0..MaxWords } }

InitIntent ==
    /\ input \in { [op |-> "detect_intent", text |-> t] : t \in IntentTexts }
    /\ last = NoOp
    /\ session = << >>
    /\ conversations = << >>
    /\ metrics = << >>
    /\ calls = 0

DetectIntent ==
    /\ input.op = "detect_intent"
    /\ last = NoOp
    /\ last' = [op |-> "detect_intent", text |-> input.text,
                result |-> detect_intent(input.text)]
    /\ UNCHANGED <<session, conversations, metrics, input, calls>>

SpecIntent == InitIntent /\ [][DetectIntent]_vars

\* every keyword of the lists of the non-greeting intents
Keywords ==
    UNION { Range(intent_keywords[i].keywords) : i \in 1..Len(intent_keywords) }

\* detect_intent called on a text that is exactly one keyword
InitKeywords ==
    /\ input \in { [op |-> "detect_intent", text |-> k] : k \in Keywords }
    /\ last = NoOp
    /\ session = << >>
    /\ conversations = << >>
    /\ metrics = << >>
    /\ calls = 0

SpecKeywords == InitKeywords /\ [][DetectIntent]_vars

----------------------------------------------------------------------------
(* Checking search alone: the query, top_k and the similarities are drawn  *)
(* in the initial state                                                    *)

InitSearch ==
    /\ input \in { [op |-> "search", query |-> q, top_k |-> k, sims |-> sims] :
                     q \in SearchQueries, k \in (-2)..MaxTopK, sims \in Sims }
    /\ last = NoOp
    /\ session = << >>
    /\ conversations = << >>
    /\ metrics = << >>
    /\ calls = 0

Search ==
    /\ input.op = "search"
    /\ last = NoOp
    /\ \E order \in argsort(input.sims) :
         last' = [op |-> "search", query |-> input.query, top_k |-> input.top_k,
                  sims |-> input.sims,
                  results |-> search(input.query, input.top_k, input.sims, order).results]
    /\ UNCHANGED <<session, conversations, metrics, input, calls>>

SpecSearch == InitSearch /\ [][Search]_vars

----------------------------------------------------------------------------
(* Claims about detect_intent *)

\* some keyword of the set ks occurs in t
Present(ks, t) == \E k \in ks : Contains(k, t)

\* C5: detect_intent is first-match-wins on the normalized text: greeting
\* whenever a greeting keyword occurs in it; otherwise the first intent of
\* the fixed order phishing_incident, password_security, mfa, vpn, updates,
\* data_sensitivity, incident_reporting one of whose keywords occurs in it;
\* and general exactly when no keyword of any list occurs in it.
C5_FirstMatchWins ==
    last.op = "detect_intent" =>
        LET t == normalize(last.text)
            order == << "phishing_incident", "password_security", "mfa", "vpn",
                        "updates", "data_sensitivity", "incident_reporting" >>
            kw(i) == Range(intent_keywords[i].keywords)
            greets == Present(Range(greeting_keywords), t)
        IN  /\ Len(intent_keywords) = Len(order)
            /\ \A i \in 1..Len(order) : intent_keywords[i].intent = order[i]
            /\ greets => last.result = "greeting"
            /\ ~greets =>
                 /\ last.result # "greeting"
                 /\ \A i \in 1..Len(order) :
                        last.result = order[i] <=>
                            /\ Present(kw(i), t)
                            /\ \A j \in 1..(i - 1) : ~Present(kw(j), t)
            /\ last.result = "general" <=>
                 /\ ~greets
                 /\ \A i \in 1..Len(order) : ~Present(kw(i), t)

\* a text holding a greeting keyword and a phishing keyword was classified
\* greeting
C5_Witness ==
    /\ last.op = "detect_intent"
    /\ last.text = "Bonjour J'ai cliqué"
    /\ Contains("ai clique", normalize(last.text))
    /\ last.result = "greeting"

----------------------------------------------------------------------------
(* Claims about search *)

\* the rows of the entries search returned
Returned(results) == { results[i][1] : i \in 1..Len(results) }

\* what C6 says of a result list for a given top_k
RankingOK(results, top_k, sims) ==
    /\ Len(results) <= top_k
    /\ \A i \in 1..Len(results) :
          /\ results[i][2] >= 10
          /\ \E e \in 1..NumFAQ : results[i][1] = faq[e] /\ results[i][2] = sims[e]
    /\ \A i, j \in 1..Len(results) : i < j => results[i][2] >= results[j][2]
    /\ \A e \in 1..NumFAQ :
          faq[e] \notin Returned(results) =>
              \A i \in 1..Len(results) : sims[e] <= results[i][2]

\* C6 as stated: for every non-empty query and every top_k, search returns
\* at most top_k entries, each with score >= 0.10, in non-increasing score
\* order, and no entry left out scores strictly more than a returned one.
C6_Original ==
    (last.op = "search" /\ last.query # "") =>
        RankingOK(last.results, last.top_k, last.sims)

\* C6, amended: the same for every non-empty query and every top_k >= 0.
C6_SearchRanking ==
    (last.op = "search" /\ last.query # "" /\ last.top_k >= 0) =>
        RankingOK(last.results, last.top_k, last.sims)

\* top_k = 1 cut the ranking: the entry left out clears the floor and the
\* one returned scores more
C6_Witness ==
    /\ last.op = "search"
    /\ last.query = "vpn"
    /\ last.top_k = 1
    /\ last.sims = <<10, 30>>
    /\ last.results = << <<faq[2], 30>> >>

----------------------------------------------------------------------------
(* Claims about respond *)

\* the step is a respond call
RespondStep == last'.op = "respond" /\ calls' = calls + 1

\* the phishing follow-up is pending in the session
Pending(sess) == DictGet(sess, "pending_flow") = "phishing_followup"

\* C1: a respond call made with no pending flow on a text classified
\* phishing_incident leaves pending_flow = phishing_followup in the session;
\* a respond call made with that flow pending is handled by the follow-up
\* handler whatever its text, without classifying it, and leaves the session
\* without pending_flow.
C1_PhishingFlow ==
    [][ RespondStep =>
          /\ (~Pending(session) /\ Classified[last'.text] = "phishing_incident")
                => /\ Pending(session')
                   /\ last'.handler = "phishing"
          /\ Pending(session)
                => /\ last'.handler = "followup"
                   /\ ~last'.classified
                   /\ "pending_flow" \notin DOMAIN session' ]_vars

\* a phishing turn was followed by a greeting text, which the follow-up
\* handler took, and the session holds no pending flow any more
C1_Witness ==
    /\ calls = 2
    /\ Len(conversations) = 2
    /\ conversations[1].intent = "phishing_incident"
    /\ last.op = "respond"
    /\ last.text = "bonjour"
    /\ last.handler = "followup"
    /\ "pending_flow" \notin DOMAIN session

\* C2: every respond call that returns adds exactly one question_asked row
\* to the metrics, tagged with the intent of the turn, in every branch.
C2_EveryTurnCounted ==
    [][ (RespondStep /\ ~last'.raised) =>
          metrics' = Append(metrics, [metric_name |-> "question_asked", value |-> 1,
                                      intent |-> last'.response.intent]) ]_vars

\* the labels detect_intent returns on the texts of the model
ClassifierLabels == { detect_intent(t) : t \in Texts \cup IntentTexts }

\* C3: every respond call that returns appends exactly one row to the
\* conversations, holding the call's user id, the user text, the returned
\* message and the returned intent; the follow-up branch returns and logs
\* phishing_followup, a label detect_intent returns for no text.
C3_TurnLogged ==
    [][ (RespondStep /\ ~last'.raised) =>
          /\ conversations' = Append(conversations,
                [user_id |-> input.user_id, user_message |-> last'.text,
                 agent_response |-> last'.response.message,
                 intent |-> last'.response.intent])
          /\ Pending(session) => last'.response.intent = "phishing_followup"
          /\ "phishing_followup" \notin ClassifierLabels ]_vars

\* a follow-up turn of user alice was logged under phishing_followup after
\* her phishing turn
C3_Witness ==
    /\ last.op = "respond"
    /\ ~last.raised
    /\ last.handler = "followup"
    /\ Len(conversations) = 2
    /\ conversations[1].intent = "phishing_incident"
    /\ conversations[2] = [user_id |-> "alice", user_message |-> "non",
                           agent_response |-> calm_msg, intent |-> "phishing_followup"]

AdmissionKeywords == {"oui", "identifiant", "mot de passe"}

\* what C4 says of the response to a follow-up, given whether the text
\* counts as holding an admission keyword
FollowupOK(response, admits) ==
    /\ admits => /\ response.message = urgent_msg
                 /\ Contains("Changez tous vos mots de passe", response.message)
                 /\ Len(response.steps) = 4
    /\ ~admits => /\ response.message = calm_msg
                  /\ Len(response.steps) = 3
    /\ response.intent = "phishing_followup"
    /\ response.suggestions = << >>

\* C4 as stated: with the follow-up pending, respond returns the urgent
\* 4-step remediation if and only if the text contains 'oui', 'identifiant'
\* or 'mot de passe', and the 3-step remediation otherwise.
C4_Original ==
    [][ (RespondStep /\ Pending(session) /\ ~last'.raised) =>
          FollowupOK(last'.response,
                     \E k \in AdmissionKeywords : Contains(k, last'.text)) ]_vars

\* C4, amended: the same with the keywords looked for in the lower-cased
\* text.
C4_FollowupKeywordGate ==
    [][ (RespondStep /\ Pending(session) /\ ~last'.raised) =>
          FollowupOK(last'.response,
                     \E k \in AdmissionKeywords : Contains(k, Lowered[last'.text])) ]_vars

\* the follow-up "OUI" got the urgent remediation
C4_Witness ==
    /\ last.op = "respond"
    /\ last.handler = "followup"
    /\ last.text = "OUI"
    /\ ~last.raised
    /\ Len(last.response.steps) = 4

\* the response is the clarification prompt: its message, its four fixed
\* suggestions and no steps
IsClarification(response) ==
    /\ response.message = clarification_msg
    /\ response.suggestions = clarification_suggestions
    /\ Len(response.suggestions) = 4
    /\ response.steps = << >>

\* C7 as stated: for an empty or whitespace-only text, in whatever session
\* state, respond does not vectorize and returns a fixed prompt asking the
\* user to state a question, never a substantive answer.
C7_Original ==
    [][ (RespondStep /\ IsBlank(last'.text) /\ ~last'.raised) =>
          /\ last'.transforms = 0
          /\ IsClarification(last'.response) ]_vars

\* C7, amended: for an empty or whitespace-only text sent while no phishing
\* follow-up is pending, the retriever gives score 0.0 and an empty ranking
\* without vectorizing, respond raises only if a persistence write fails,
\* and what it returns is the fixed clarification prompt with intent
\* general.
C7_BlankInput ==
    [][ (RespondStep /\ IsBlank(last'.text) /\ ~Pending(session)) =>
          /\ last'.transforms = 0
          /\ last'.score = 0
          /\ \A sims \in Sims : \A order \in argsort(sims) :
                /\ answer(last'.text, sims).score = 0
                /\ answer(last'.text, sims).transforms = 0
                /\ search(last'.text, 3, sims, order)
                      = [results |-> << >>, transforms |-> 0]
          /\ last'.raised => last'.fail # "none"
          /\ ~last'.raised => /\ IsClarification(last'.response)
                              /\ last'.response.intent = "general" ]_vars

\* a whitespace-only text sent with nothing pending got the clarification
\* prompt
C7_Witness ==
    /\ last.op = "respond"
    /\ last.text = "  "
    /\ last.handler = "clarification"
    /\ ~last.raised
    /\ last.response.message = clarification_msg

\* C8: a respond call in which a write to the sink fails returns no
\* AgentResponse: it raises, in every branch; the failed write is the last
\* one the call attempts, and no write is attempted twice.
C8_WriteFailurePropagates ==
    last.op = "respond" =>
        LET n == Len(last.writes)
            failed == \E i \in 1..n : ~last.writes[i].ok
        IN  /\ failed => /\ last.raised
                         /\ last.response = NoResponse
                         /\ ~last.writes[n].ok
                         /\ \A i \in 1..(n - 1) : last.writes[i].ok
            /\ \A i, j \in 1..n : i # j => last.writes[i].op # last.writes[j].op
            /\ last.fail = "save" => failed
            /\ (last.fail = "incr" /\ last.handler # "followup") => failed
            /\ last.raised => failed

\* the counter increment of a greeting turn failed after its conversation
\* row was written, and the call raised
C8_Witness ==
    /\ last.op = "respond"
    /\ last.handler = "greeting"
    /\ last.fail = "incr"
    /\ last.raised
    /\ Len(conversations) = 1
    /\ Len(metrics) = 0

\* C9: in every AgentResponse respond returns, each suggestion is a pair of
\* a string label and a number; the greeting branch returns 3 of them and no
\* steps, the clarification branch 4.
C9_SuggestionsTyped ==
    (last.op = "respond" /\ ~last.raised) =>
        /\ \A i \in 1..Len(last.response.suggestions) :
              /\ last.response.suggestions[i][1].type = "str"
              /\ last.response.suggestions[i][2] \in Int
        /\ last.handler = "greeting" =>
              /\ Len(last.response.suggestions) = 3
              /\ last.response.steps = << >>
        /\ last.handler = "clarification" => Len(last.response.suggestions) = 4

\* C10: with nothing pending and an intent other than greeting and
\* phishing_incident, respond returns the clarification prompt, under the
\* classified intent, if and only if the retrieval score is below 0.15 and
\* the intent is general or incident_reporting; otherwise the checklist of
\* the intent is attached as the steps.
C10_ClarificationGate ==
    [][ ( /\ RespondStep
          /\ ~Pending(session)
          /\ Classified[last'.text] \notin {"greeting", "phishing_incident"}
          /\ ~last'.raised ) =>
          LET intent == Classified[last'.text]
              response == last'.response
          IN  /\ response.intent = intent
              /\ IsClarification(response) <=>
                    (last'.score < 15 /\ intent \in {"general", "incident_reporting"})
              /\ ~IsClarification(response) =>
                    /\ response.steps = _generic_steps(intent)
                    /\ Len(response.steps) \in {3, 4}
                    /\ response.message # clarification_msg ]_vars

\* a vpn question scoring 0 got the vpn checklist, not the clarification
C10_Witness ==
    /\ last.op = "respond"
    /\ last.text = "vpn"
    /\ last.handler = "default"
    /\ last.score = 0
    /\ ~last.raised
    /\ last.response.steps = _generic_steps("vpn")
    /\ last.response.message # clarification_msg

----------------------------------------------------------------------------
(* C11: the message body of the default branch *)

\* a respond call answered by the default branch, past the clarification case
DefaultAnswered ==
    /\ last.op = "respond"
    /\ input.op = "turn"
    /\ last.handler = "default"
    /\ ~last.raised

BestEntry == argmax(input.sims)

BestScore == input.sims[BestEntry]

IsPrefix(p, t) == Len(p) <= Len(t) /\ SubSeq(t, 1, Len(p)) = p

GuidanceFor(intent, score) ==
    IF score >= ConfidentFrom THEN _enrich_md(intent) ELSE _enrich_md("general")

\* C11 as stated: in the default branch, outside the clarification case, a
\* password_security turn scoring under 0.3 gets the password-recovery script,
\* and every other turn gets the answer of the best-matching FAQ entry followed
\* by the guidance block of its intent (score >= 0.3) or of general (score < 0.3).
C11_Original ==
    DefaultAnswered =>
        LET intent == Classified[last.text]
        IN  IF intent = "password_security" /\ BestScore < ConfidentFrom
            THEN IsPrefix(password_script, last.response.message)
            ELSE last.response.message =
                     faq[BestEntry].answer \o GuidanceFor(intent, BestScore)

\* C11, amended: in the default branch, outside the clarification case, a
\* password_security turn scoring under 0.3 gets the password-recovery script
\* followed by the password_security guidance block; every other turn gets the
\* text the retriever returns -- the answer of the best-matching FAQ entry when
\* its score reaches 0.15, the retriever's fixed fallback text when it does
\* not -- followed by the guidance block of its intent (score >= 0.3) or of
\* general (score < 0.3).
C11_DefaultMessage ==
    DefaultAnswered =>
        LET intent == Classified[last.text]
            retrieved == IF BestScore >= min_similarity
                         THEN faq[BestEntry].answer
                         ELSE fallback_answer
        IN  /\ last.score = BestScore
            /\ last.response.message =
                   IF intent = "password_security" /\ BestScore < ConfidentFrom
                   THEN password_script \o _enrich_md("password_security")
                   ELSE retrieved \o GuidanceFor(intent, BestScore)

\* a vpn question no FAQ entry resembles: the fallback text with the general
\* guidance block
C11_Witness ==
    /\ DefaultAnswered
    /\ Classified[last.text] = "vpn"
    /\ BestScore < min_similarity
    /\ last.response.message = fallback_answer \o _enrich_md("general")

----------------------------------------------------------------------------
(* C12: the session after a failed turn *)

\* C12: a respond call that raises because a persistence write fails leaves
\* session.pending_flow as it was before the call: a failed phishing_incident
\* turn does not leave it set, a failed follow-up turn does not leave it
\* cleared.
C12_FailedTurnKeepsSession ==
    [][ (RespondStep /\ last'.raised)
            => DictGet(session', "pending_flow") = DictGet(session, "pending_flow") ]_vars

----------------------------------------------------------------------------
(* C13: the keywords of the lists as texts *)

\* the intents whose keyword list holds the text
ListedUnder(text) ==
    { intent_keywords[i].intent :
          i \in { j \in 1..Len(intent_keywords) :
                      text \in Range(intent_keywords[j].keywords) } }

\* C13: detect_intent applied to a text that is exactly one keyword of a
\* non-greeting intent returns that intent; no keyword is shadowed by a
\* greeting keyword or by a keyword of an earlier list found inside it.
C13_NoDeadKeyword ==
    (last.op = "detect_intent" /\ last.text \in Keywords)
        => \A intent \in ListedUnder(last.text) : last.result = intent

----------------------------------------------------------------------------
(* C14: the phishing flow across two /chat requests *)

ChatStep == last'.op = "chat" /\ calls' = calls + 1

\* the previous /chat request was answered by the phishing_incident branch
PhishingAnswered ==
    /\ last.op = "chat"
    /\ last.handler = "phishing"
    /\ last.status_code = 200

\* C14: of two consecutive /chat requests of one conversation, in which the
\* client sends as session its own session object or nothing, the second is
\* handled by the follow-up handler when the first was classified
\* phishing_incident: the pending_flow the first turn set is seen by the second.
C14_FlowSurvivesHTTP ==
    [][ (ChatStep /\ PhishingAnswered) => last'.handler = "followup" ]_vars

====
